---- MODULE Spec2Model ----
(***************************************************************************)
(* Model of pypiuploader/download.py: PackageDownloader, the exception     *)
(* PackageDownloadErr, and the collaborators the class calls (tempfile,    *)
(* os, pip).                                                               *)
(*                                                                         *)
(* A Python string is a sequence of text chunks, so that os.path.join is   *)
(* computed and not assumed: "d/" is <<"d", "/">>.  An optional value is a *)
(* sequence of length 0 (None) or 1.                                       *)
(***************************************************************************)
EXTENDS Integers, Sequences, FiniteSets, TLC

VARIABLES download_path, pip_version, fskind, entries, gens, last, ncalls, ctor_path

vars == <<download_path, pip_version, fskind, entries, gens, last, ncalls, ctor_path>>

\* ---------------------------------------------------------------- bounds
\* download() calls in one behaviour
MaxCalls == 2

\* ---------------------------------------------------------------- values
None == <<>>
Some(x) == <<x>>

\* pip.status_codes.SUCCESS, and the statuses pip.main may return
SUCCESS == 0
Statuses == { SUCCESS, SUCCESS + 1, SUCCESS + 2 }

\* destinations a caller may hand to the constructor
ConfiguredPaths == { <<"d">>, <<"e", "/">> }
\* names tempfile.mkdtemp may return
TmpPaths == { <<"/", "t1">>, <<"/", "t2">> }

\* names of the direct children a directory may hold: two regular files and
\* one subdirectory; the subdirectory always holds the regular file InnerName
FileNames == { "f", "g" }
SubdirNames == { "s" }
Names == FileNames \cup SubdirNames
InnerName == "i"

\* what a configured destination may already hold, and what a run of pip adds
InitContents == { {}, {"g"} }
PipWrites == { {}, {"f", "s"} }

RequirementLists == { <<>>, << <<"mock">>, <<"requests==1.2.1">> >> }
RequirementFiles == { <<"requirements.txt">> }

\* pip.__version__: release numbers and a pre-release tag ("" when final)
V(rel, pre) == [release |-> rel, pre |-> pre]
PipVersions == { V(<<7, 1, 2>>, ""), V(<<8, 0, 0>>, "rc1"), V(<<8, 0, 0>>, ""),
                 V(<<8, 0>>, ""), V(<<10, 0>>, "") }

\* ---------------------------------------------------------------- packaging.version
RECURSIVE StripZeros(_)
\* trailing zeros of the release do not count ("8.0" == "8.0.0")
StripZeros(rel) ==
    IF Len(rel) > 0 /\ rel[Len(rel)] = 0
    THEN StripZeros(SubSeq(rel, 1, Len(rel) - 1))
    ELSE rel

\* the comparison key of a parsed version
parse_version(v) == [release |-> StripZeros(v.release), final |-> v.pre = ""]

RECURSIVE SeqLess(_, _)
\* tuple comparison of Python: lexicographic, a proper prefix is smaller
SeqLess(a, b) ==
    IF Len(b) = 0 THEN FALSE
    ELSE IF Len(a) = 0 THEN TRUE
    ELSE IF a[1] # b[1] THEN a[1] < b[1]
    ELSE SeqLess(Tail(a), Tail(b))

\* Version.__lt__ : release first, then a pre-release sorts before the final
VersionLess(a, b) ==
    \/ SeqLess(a.release, b.release)
    \/ a.release = b.release /\ ~a.final /\ b.final

\* ---------------------------------------------------------------- os.path / os
RECURSIVE StripSlash(_)
\* the directory a path names: trailing separators do not matter
StripSlash(p) ==
    IF Len(p) > 1 /\ p[Len(p)] = "/"
    THEN StripSlash(SubSeq(p, 1, Len(p) - 1))
    ELSE p

DirPaths == { StripSlash(p) : p \in ConfiguredPaths } \cup TmpPaths

\* posixpath.join(a, b)
join(a, b) ==
    IF Len(b) > 0 /\ b[1] = "/" THEN b
    ELSE IF Len(a) = 0 \/ a[Len(a)] = "/" THEN a \o b
    ELSE a \o <<"/">> \o b

\* the directory part and the last component of a joined path
DirOf(full) == StripSlash(SubSeq(full, 1, Len(full) - 1))
BaseOf(full) == full[Len(full)]

\* isfile as os.path.exists: a subdirectory passes too
isfile_Exists(kind, ents, full) ==
    /\ Len(full) >= 2
    /\ DirOf(full) \in DirPaths
    /\ kind[DirOf(full)] = "dir"
    /\ BaseOf(full) \in ents[DirOf(full)]

\* os.path.isfile(full): the path resolves to an existing regular file
isfile(kind, ents, full) ==
    /\ Len(full) >= 2
    /\ \/ /\ DirOf(full) \in DirPaths
          /\ kind[DirOf(full)] = "dir"
          /\ BaseOf(full) \in FileNames
          /\ BaseOf(full) \in ents[DirOf(full)]
       \/ /\ BaseOf(full) = InnerName
          /\ Len(DirOf(full)) >= 2
          /\ DirOf(DirOf(full)) \in DirPaths
          /\ kind[DirOf(DirOf(full))] = "dir"
          /\ DirOf(full)[Len(DirOf(full))] \in SubdirNames
          /\ DirOf(full)[Len(DirOf(full))] \in ents[DirOf(DirOf(full))]

\* os.makedirs(path): creates the directory, or raises OSError with an errno
makedirs(kind, path) ==
    LET d == StripSlash(path) IN
    IF kind[d] = "absent" THEN [fskind |-> [kind EXCEPT ![d] = "dir"], errno |-> ""]
    ELSE IF kind[d] = "denied" THEN [fskind |-> kind, errno |-> "EACCES"]
    ELSE [fskind |-> kind, errno |-> "EEXIST"]

\* all the orders in which os.listdir may return the names of S
Orderings(S) ==
    { o \in [1..Cardinality(S) -> S] : \A i, j \in 1..Cardinality(S) : i # j => o[i] # o[j] }

\* ---------------------------------------------------------------- PackageDownloadErr
\* assigning a list to BaseException.args stores the tuple of its items
Tuple(a) == [i \in 1..Len(a) |-> a[i]]

PackageDownloadErr(status, args) ==
    [type |-> "PackageDownloadErr",
     status |-> status,
     args |-> Tuple(args),
     message |-> [fmt |-> "package failed download, exit %d. Arguments: %s",
                  status |-> status, args |-> args]]

ValueError(msg) ==
    [type |-> "ValueError", status |-> SUCCESS, args |-> << <<msg>> >>,
     message |-> [fmt |-> msg, status |-> SUCCESS, args |-> <<>>]]

\* ---------------------------------------------------------------- PackageDownloader
\* _make_download_dir without the `is None` test: a temporary directory per call
_make_download_dir_AlwaysTemp(dp, kind, tmp) ==
    [download_path |-> Some(tmp),
     fskind |-> [kind EXCEPT ![tmp] = "dir"],
     events |-> <<"mkdtemp">>,
     errno |-> "",
     raised |-> FALSE]

\* _make_download_dir, with tmp the name mkdtemp returns.  Every OSError of
\* makedirs is caught and dropped.
_make_download_dir(dp, kind, tmp) ==
    IF dp = None
    THEN [download_path |-> Some(tmp),
          fskind |-> [kind EXCEPT ![tmp] = "dir"],
          events |-> <<"mkdtemp">>,
          errno |-> "",
          raised |-> FALSE]
    ELSE LET r == makedirs(kind, dp[1]) IN
         [download_path |-> dp,
          fskind |-> r.fskind,
          events |-> IF r.errno = "" THEN <<"makedirs", "mkdir">> ELSE <<"makedirs">>,
          errno |-> r.errno,
          raised |-> FALSE]

\* pip_command with `<=` for `<`
pip_command_Inclusive(version) ==
    IF \/ VersionLess(parse_version(version), parse_version(V(<<8, 0, 0>>, "")))
       \/ parse_version(version) = parse_version(V(<<8, 0, 0>>, ""))
    THEN <<"install">>
    ELSE <<"download">>

\* the subcommand: 'install' for a pip older than 8.0.0
pip_command(version) ==
    IF VersionLess(parse_version(version), parse_version(V(<<8, 0, 0>>, "")))
    THEN <<"install">>
    ELSE <<"download">>

\* _build_args appending '--no-use-wheel' after the requirements
_build_args_FlagLast(version, dp, requirements, requirements_file, no_use_wheel) ==
    LET args0 == << pip_command(version), <<"-d">>, dp[1] >>
        flag == IF no_use_wheel THEN << <<"--no-use-wheel">> >> ELSE <<>>
    IN  IF requirements # None
        THEN [raised |-> FALSE, args |-> args0 \o requirements[1] \o flag]
        ELSE IF requirements_file # None
        THEN [raised |-> FALSE,
              args |-> args0 \o << <<"-r">>, requirements_file[1] >> \o flag]
        ELSE [raised |-> TRUE, args |-> <<>>]

\* _build_args testing `if requirements:` for `if requirements is not None:`
_build_args_Truthy(version, dp, requirements, requirements_file, no_use_wheel) ==
    LET args0 == << pip_command(version), <<"-d">>, dp[1] >>
        args1 == IF no_use_wheel THEN Append(args0, <<"--no-use-wheel">>) ELSE args0
    IN  IF requirements # None /\ requirements[1] # <<>>
        THEN [raised |-> FALSE, args |-> args1 \o requirements[1]]
        ELSE IF requirements_file # None
        THEN [raised |-> FALSE, args |-> args1 \o << <<"-r">>, requirements_file[1] >>]
        ELSE [raised |-> TRUE, args |-> <<>>]

\* _build_args: the argument vector, or ValueError
_build_args(version, dp, requirements, requirements_file, no_use_wheel) ==
    LET args0 == << pip_command(version), <<"-d">>, dp[1] >>
        args1 == IF no_use_wheel THEN Append(args0, <<"--no-use-wheel">>) ELSE args0
    IN  IF requirements # None
        THEN [raised |-> FALSE, args |-> args1 \o requirements[1]]
        ELSE IF requirements_file # None
        THEN [raised |-> FALSE, args |-> args1 \o << <<"-r">>, requirements_file[1] >>]
        ELSE [raised |-> TRUE, args |-> <<>>]

\* the status test catching one failure status only
PipFailed_OneStatus(pip_result) == pip_result = SUCCESS + 1

\* `if pip_result != SUCCESS`
PipFailed(pip_result) == pip_result # SUCCESS

\* os.listdir(path) of the generator's first resumption
listdir(kind, ents, path, order) ==
    IF kind[StripSlash(path)] = "dir" /\ order \in Orderings(ents[StripSlash(path)])
    THEN [raised |-> FALSE, names |-> order]
    ELSE [raised |-> TRUE, names |-> <<>>]

RECURSIVE Resume(_, _, _, _, _)
\* the for loop of _list_download_dir up to its next yield
Resume(kind, ents, path, pending, out) ==
    IF pending = <<>>
    THEN [st |-> "done", pending |-> <<>>, out |-> out]
    ELSE LET fullpath == join(path, <<pending[1]>>) IN
         IF isfile(kind, ents, fullpath)
         THEN [st |-> "running", pending |-> Tail(pending), out |-> Append(out, fullpath)]
         ELSE Resume(kind, ents, path, Tail(pending), out)

RECURSIVE Drain(_, _, _, _, _)
\* the loop run to exhaustion, as list() does
Drain(kind, ents, path, pending, out) ==
    LET r == Resume(kind, ents, path, pending, out) IN
    IF r.st = "done" THEN r ELSE Drain(kind, ents, path, r.pending, r.out)

\* _list_download_dir returning a list built on the spot
_list_download_dir_Eager(path, kind, ents) ==
    IF kind[StripSlash(path)] # "dir"
    THEN [st |-> "error", pending |-> <<>>, out |-> <<>>]
    ELSE Drain(kind, ents, path,
               CHOOSE o \in Orderings(ents[StripSlash(path)]) : TRUE, <<>>)

\* _list_download_dir is a generator function: calling it runs none of its
\* body, whatever the destination (path, kind, ents) holds at that moment
_list_download_dir(path, kind, ents) ==
    [st |-> "unstarted", pending |-> <<>>, out |-> <<>>]

NoCall ==
    [requirements |-> None, requirements_file |-> None, no_use_wheel |-> FALSE,
     path_before |-> None, events |-> <<>>, errno |-> "", exc |-> None,
     args |-> None, status |-> None, dest_at_pip |-> "", gen |-> 0]

\* ---------------------------------------------------------------- initial states
\* after PackageDownloader(download_path): the destination is stored as given
\* (None when omitted); a configured destination is absent, a directory with
\* some content, a regular file, or absent where it cannot be created
Init ==
    /\ ctor_path \in {None} \cup { Some(p) : p \in ConfiguredPaths }
    /\ download_path = ctor_path
    /\ pip_version \in PipVersions
    /\ \E k \in {"absent", "dir", "file", "denied"}, c \in InitContents :
          /\ ctor_path = None => k = "absent"
          /\ k # "dir" => c = {}
          /\ fskind = [d \in DirPaths |->
                         IF ctor_path # None /\ d = StripSlash(ctor_path[1]) THEN k ELSE "absent"]
          /\ entries = [d \in DirPaths |->
                         IF ctor_path # None /\ d = StripSlash(ctor_path[1]) THEN c ELSE {}]
    /\ gens = <<>>
    /\ last = NoCall
    /\ ncalls = 0

\* ---------------------------------------------------------------- download
\* download(requirements, requirements_file, no_use_wheel) as one step; tmp is
\* the name mkdtemp would return, pip_result and written what pip.main does
Download(requirements, requirements_file, no_use_wheel, tmp, pip_result, written) ==
    /\ ncalls < MaxCalls
    /\ fskind[tmp] = "absent"
    /\ LET m == _make_download_dir(download_path, fskind, tmp)
           b == _build_args(pip_version, m.download_path, requirements,
                            requirements_file, no_use_wheel)
           dest == StripSlash(m.download_path[1])
           call == [NoCall EXCEPT !.requirements = requirements,
                                  !.requirements_file = requirements_file,
                                  !.no_use_wheel = no_use_wheel,
                                  !.path_before = download_path,
                                  !.events = m.events,
                                  !.errno = m.errno]
       IN
       /\ ncalls' = ncalls + 1
       /\ download_path' = m.download_path
       /\ fskind' = m.fskind
       /\ UNCHANGED <<pip_version, ctor_path>>
       /\ IF b.raised
          THEN /\ written = {} /\ pip_result = SUCCESS
               /\ last' = [call EXCEPT !.exc = Some(ValueError(
                              "Either requirements or requirements_file must be given."))]
               /\ UNCHANGED <<entries, gens>>
          ELSE \* pip.main(args) runs: it can write only into an existing directory
               /\ m.fskind[dest] # "dir" => written = {}
               /\ entries' = [entries EXCEPT ![dest] = @ \cup written]
               /\ LET ran == [call EXCEPT !.events = Append(m.events, "pip.main"),
                                          !.args = Some(b.args),
                                          !.status = Some(pip_result),
                                          !.dest_at_pip = m.fskind[dest]]
                  IN IF PipFailed(pip_result)
                     THEN /\ last' = [ran EXCEPT !.exc = Some(PackageDownloadErr(pip_result, b.args))]
                          /\ UNCHANGED gens
                     ELSE /\ last' = [ran EXCEPT !.gen = Len(gens) + 1]
                          /\ gens' = Append(gens, _list_download_dir(m.download_path[1],
                                                                   fskind', entries'))

\* ---------------------------------------------------------------- the result sequence
\* next() on the i-th returned generator: the first resumption lists the
\* destination, every resumption runs the loop up to the next yield
NextItem(i, order) ==
    /\ i \in DOMAIN gens
    /\ LET g == gens[i]
           path == download_path[1]
       IN
       /\ g.st \in {"unstarted", "running"}
       /\ IF g.st = "unstarted"
          THEN LET l == listdir(fskind, entries, path, order) IN
               IF l.raised
               THEN /\ order = <<>>
                    /\ gens' = [gens EXCEPT ![i].st = "error"]
               ELSE LET r == Resume(fskind, entries, path, l.names, <<>>) IN
                    gens' = [gens EXCEPT ![i].st = r.st, ![i].pending = r.pending,
                                         ![i].out = r.out]
          ELSE /\ order = <<>>
               /\ LET r == Resume(fskind, entries, path, g.pending, g.out) IN
                  gens' = [gens EXCEPT ![i].st = r.st, ![i].pending = r.pending,
                                       ![i].out = r.out]
    /\ UNCHANGED <<download_path, pip_version, fskind, entries, last, ncalls, ctor_path>>

\* ---------------------------------------------------------------- the environment
\* something else adds or removes a direct child of the destination while a
\* result sequence is held
EnvChange(n) ==
    /\ gens # <<>>
    /\ download_path # None
    /\ LET dest == StripSlash(download_path[1]) IN
       /\ fskind[dest] = "dir"
       /\ entries' = [entries EXCEPT ![dest] = IF n \in @ THEN @ \ {n} ELSE @ \cup {n}]
    /\ UNCHANGED <<download_path, pip_version, fskind, gens, last, ncalls, ctor_path>>

AllOrders == UNION { Orderings(S) : S \in SUBSET Names }

\* list() on the i-th returned generator: everything it still has to yield,
\* with nothing else running in between
ConsumeAll(i, order) ==
    /\ i \in DOMAIN gens
    /\ LET g == gens[i]
           path == download_path[1]
       IN
       /\ g.st \in {"unstarted", "running"}
       /\ IF g.st = "unstarted"
          THEN LET l == listdir(fskind, entries, path, order) IN
               IF l.raised
               THEN /\ order = <<>>
                    /\ gens' = [gens EXCEPT ![i].st = "error"]
               ELSE LET r == Drain(fskind, entries, path, l.names, <<>>) IN
                    gens' = [gens EXCEPT ![i].st = r.st, ![i].pending = r.pending,
                                         ![i].out = r.out]
          ELSE /\ order = <<>>
               /\ LET r == Drain(fskind, entries, path, g.pending, g.out) IN
                  gens' = [gens EXCEPT ![i].st = r.st, ![i].pending = r.pending,
                                       ![i].out = r.out]
    /\ UNCHANGED <<download_path, pip_version, fskind, entries, last, ncalls, ctor_path>>

\* ---------------------------------------------------------------- specifications
\* the names mkdtemp may return now: any unused one while the destination is
\* unset, and one is enough once it is set, since mkdtemp is not reached
FreshTmp == { t \in TmpPaths : fskind[t] = "absent" }
TmpChoices ==
    IF download_path = None \/ FreshTmp = {} THEN FreshTmp
    ELSE { CHOOSE t \in FreshTmp : TRUE }

OptRequirements == {None} \cup { Some(r) : r \in RequirementLists }
OptRequirementFiles == {None} \cup { Some(f) : f \in RequirementFiles }

\* any request, any behaviour of pip
DownloadCall ==
    \E requirements \in OptRequirements, requirements_file \in OptRequirementFiles,
       no_use_wheel \in BOOLEAN, tmp \in TmpChoices, pip_result \in Statuses,
       written \in PipWrites :
        Download(requirements, requirements_file, no_use_wheel, tmp, pip_result, written)

Next == DownloadCall

\* the calls of download() on one instance
Spec == Init /\ [][Next]_vars

\* one fixed request
DownloadOne ==
    \E tmp \in TmpChoices, pip_result \in Statuses, written \in PipWrites :
        Download(Some(<< <<"mock">>, <<"requests==1.2.1">> >>), None, FALSE, tmp, pip_result, written)

ConsumeNext == \E i \in 1..MaxCalls, order \in AllOrders : NextItem(i, order)

ConsumeList == \E i \in 1..MaxCalls, order \in AllOrders : ConsumeAll(i, order)

Environment == \E n \in Names : EnvChange(n)

InitList == Init /\ pip_version = V(<<10, 0>>, "")

NextList == DownloadOne \/ ConsumeNext \/ ConsumeList \/ Environment

\* the calls of download() and the consumption of what they return
SpecList == InitList /\ [][NextList]_vars

\* ---------------------------------------------------------------- properties
Has(seq, e) == \E k \in DOMAIN seq : seq[k] = e
Count(seq, e) == Cardinality({ k \in DOMAIN seq : seq[k] = e })
Called == ncalls > 0
ValidRequest == last.requirements # None \/ last.requirements_file # None
Raised(type) == last.exc # None /\ last.exc[1].type = type
DestDir == StripSlash(download_path[1])
FilesIn(d) == entries[d] \cap FileNames

\* C1: a download call with both the specifiers and the manifest path omitted
\* fails with ValueError, creates no temporary directory and no destination
\* directory, leaves the destination attribute as it was and does not invoke pip.
C1_InvalidRequestHasNoSideEffect ==
    (Called /\ ~ValidRequest) =>
        /\ Raised("ValueError")
        /\ ~Has(last.events, "mkdtemp")
        /\ ~Has(last.events, "mkdir")
        /\ download_path = last.path_before
        /\ ~Has(last.events, "pip.main")

\* C2: when pip returns a non-success status S for the argument vector A,
\* download raises PackageDownloadErr with status S and arguments A, and the
\* call adds no result sequence.
C2_FailureRaisesWithStatusAndArgs ==
    /\ [](( last.status # None /\ last.status[1] # SUCCESS) =>
            /\ Raised("PackageDownloadErr")
            /\ last.exc[1].status = last.status[1]
            /\ last.exc[1].args = last.args[1]
            /\ last.gen = 0)
    /\ [][(ncalls' # ncalls /\ last'.status # None /\ last'.status[1] # SUCCESS)
             => gens' = gens]_vars

C2_Witness ==
    /\ last.status = Some(SUCCESS + 2)
    /\ Raised("PackageDownloadErr")
    /\ last.no_use_wheel
    /\ Len(last.exc[1].args) = 6

\* C3: when creating the configured destination fails for a reason other than
\* 'already exists', download raises a directory-creation error and does not
\* invoke pip.
C3_OtherCreationFailuresSurface ==
    (Called /\ last.errno \notin {"", "EEXIST"}) =>
        /\ Raised("OSError")
        /\ ~Has(last.events, "pip.main")

\* C4: an instance built without a destination gets, on its first download
\* call, a newly created existing temporary directory as destination; a
\* resolved destination never changes afterwards, whatever the calls do, and
\* at most one temporary directory is ever created.
C4_DestinationResolvedOnce ==
    /\ []((Called /\ ctor_path = None) =>
            /\ download_path # None
            /\ download_path[1] \in TmpPaths
            /\ fskind[download_path[1]] = "dir")
    /\ []((ncalls = 1 /\ ctor_path = None) =>
            last.path_before = None /\ Has(last.events, "mkdtemp"))
    /\ [](ctor_path # None => download_path = ctor_path)
    /\ [](Cardinality({ t \in TmpPaths : fskind[t] # "absent" }) <= 1)
    /\ [][download_path # None => download_path' = download_path]_vars

C4_Witness ==
    /\ ncalls >= 2
    /\ ctor_path = None
    /\ download_path # None
    /\ download_path[1] \in TmpPaths
    /\ last.path_before = download_path
    /\ Raised("ValueError")

\* C5: a returned sequence consumed from start to end, with the destination
\* holding N regular files and M subdirectories, yields exactly N paths, the
\* destination joined with the name of each regular file; no sequence ever
\* yields a subdirectory or a path inside one.
C5_YieldsExactlyTheRegularFiles ==
    /\ [](\A i \in DOMAIN gens : \A k \in DOMAIN gens[i].out :
            \E f \in FileNames : gens[i].out[k] = DestDir \o <<"/", f>>)
    /\ [][\A i \in DOMAIN gens :
            (gens[i].st = "unstarted" /\ gens'[i].st = "done") =>
                /\ Len(gens'[i].out) = Cardinality(FilesIn(DestDir))
                /\ { gens'[i].out[k] : k \in DOMAIN gens'[i].out }
                     = { DestDir \o <<"/", f>> : f \in FilesIn(DestDir) }]_vars

C5_Witness ==
    /\ download_path = Some(<<"e", "/">>)
    /\ entries[<<"e">>] = Names
    /\ \E i \in DOMAIN gens :
          /\ gens[i].st = "done"
          /\ Len(gens[i].out) = 2
          /\ Has(gens[i].out, <<"e", "/", "f">>)
          /\ Has(gens[i].out, <<"e", "/", "g">>)

\* C6: for every valid request the argument vector given to pip is, in order,
\* the subcommand, '-d', the resolved destination, '--no-use-wheel' exactly
\* when no_use_wheel is set, then the specifiers in their order or else '-r'
\* and the manifest path.
C6_ArgumentVectorLayout ==
    (Called /\ ValidRequest) =>
        /\ last.args # None
        /\ last.args[1][1] \in { <<"install">>, <<"download">> }
        /\ Tail(last.args[1]) =
              << <<"-d">>, download_path[1] >>
              \o (IF last.no_use_wheel THEN << <<"--no-use-wheel">> >> ELSE <<>>)
              \o (IF last.requirements # None
                  THEN last.requirements[1]
                  ELSE << <<"-r">>, last.requirements_file[1] >>)

C6_Witness ==
    /\ last.args # None
    /\ last.no_use_wheel
    /\ last.requirements = None
    /\ last.args[1][4] = <<"--no-use-wheel">>
    /\ last.args[1][5] = <<"-r">>
    /\ last.args[1][6] = <<"requirements.txt">>
    /\ last.path_before = None

\* the versions of PipVersions that sort strictly below 8.0.0
Below8 == { V(<<7, 1, 2>>, ""), V(<<8, 0, 0>>, "rc1") }

C8_InvokedOnceInExistingDirectory ==
    (Called /\ ValidRequest) =>
        /\ Count(last.events, "pip.main") = 1
        /\ last.dest_at_pip = "dir"

\* C9: download returns a sequence that has listed nothing; the destination
\* is listed at the first resumption, with the content it has then; a call
\* adds one fresh sequence and leaves the earlier ones as they are, consuming
\* one sequence leaves the others as they are, and a sequence exists only for
\* a call whose pip invocation returned SUCCESS.
C9_LazyListing ==
    /\ [](\A i \in DOMAIN gens :
            gens[i].st = "unstarted" => gens[i].pending = <<>> /\ gens[i].out = <<>>)
    /\ [][\A i \in DOMAIN gens :
            (gens[i].st = "unstarted" /\ gens'[i].st \in {"running", "done"}) =>
                LET listed == { gens'[i].pending[k] : k \in DOMAIN gens'[i].pending }
                    yielded == { f \in FileNames : Has(gens'[i].out, DestDir \o <<"/", f>>) }
                IN /\ fskind[DestDir] = "dir"
                   /\ listed \cup yielded \subseteq entries[DestDir]
                   /\ FilesIn(DestDir) \subseteq listed \cup yielded]_vars
    /\ [][Len(gens') # Len(gens) =>
            /\ Len(gens') = Len(gens) + 1
            /\ SubSeq(gens', 1, Len(gens)) = gens
            /\ gens'[Len(gens')].st = "unstarted"
            /\ last'.status = Some(SUCCESS)
            /\ Has(last'.events, "pip.main")]_vars
    /\ [][\A i, j \in DOMAIN gens :
            (i # j /\ gens'[i] # gens[i]) => gens'[j] = gens[j]]_vars

C9_Witness ==
    /\ ncalls = 1
    /\ ctor_path = None
    /\ Len(gens) = 1
    /\ gens[1].st = "done"
    /\ gens[1].out = << DestDir \o <<"/", "g">> >>

\* C10: a call that gives both a specifier list and a manifest path raises no
\* ValueError, passes the specifiers and neither '-r' nor the manifest path,
\* and invokes pip; a given but empty specifier list is accepted and yields a
\* vector with no specifier and no '-r'.
C10_SpecifiersTakePrecedence ==
    /\ (Called /\ last.requirements # None /\ last.requirements_file # None) =>
          /\ ~Raised("ValueError")
          /\ last.args # None
          /\ Has(last.events, "pip.main")
          /\ ~Has(last.args[1], <<"-r">>)
          /\ ~Has(last.args[1], last.requirements_file[1])
          /\ SubSeq(last.args[1], Len(last.args[1]) - Len(last.requirements[1]) + 1,
                    Len(last.args[1])) = last.requirements[1]
    /\ (Called /\ last.requirements = Some(<<>>)) =>
          /\ ~Raised("ValueError")
          /\ last.args # None
          /\ Has(last.events, "pip.main")
          /\ ~Has(last.args[1], <<"-r">>)
          /\ Len(last.args[1]) = IF last.no_use_wheel THEN 4 ELSE 3

C10_Witness ==
    /\ last.requirements = Some(<< <<"mock">>, <<"requests==1.2.1">> >>)
    /\ last.requirements_file # None
    /\ last.args # None
    /\ Len(last.args[1]) = 5
    /\ last.status = Some(SUCCESS)
    /\ last.gen = 1

====
